---- MODULE Spec2Model ----
(***************************************************************************)
(* Model of bevy-inspector-egui's entity hierarchy view                    *)
(* (crates/bevy-inspector-egui/src/bevy_inspector/hierarchy.rs):           *)
(*   - HierarchyStructure: the flattened pre-order snapshot of the entity  *)
(*     graph (read_from_world / add_recursive) and its visible subsequence *)
(*     (read_expanded / is_visible);                                       *)
(*   - SelectedEntities: the selection state machine (select and friends); *)
(*   - Hierarchy::_show: the per-frame driver that rebuilds the snapshot   *)
(*     and feeds one click to SelectedEntities.                            *)
(*                                                                         *)
(* Conventions.  A Rust Option<T> is a sequence of length at most one:     *)
(* None is <<>> and Some(x) is <<x>>.  An Entity is a positive integer;    *)
(* Entity's Ord is the integer order.  A Vec is a sequence.                *)
(***************************************************************************)
EXTENDS Integers, Sequences, FiniteSets, TLC

VARIABLES
    world,              \* the bevy World: ChildOf / Children components, QF filter
    expanded,           \* egui temp data: Id::new(entity) -> bool (absent = false)
    overflow_checks,    \* build profile: TRUE = arithmetic overflow panics
    elements,           \* HierarchyStructure.elements
    visible_elements,   \* HierarchyStructure.visible_elements
    entities,           \* SelectedEntities.entities
    last_action,        \* SelectedEntities.last_action
    panicked,           \* the thread unwound out of a call
    call,               \* history: the last operation and its arguments
    pre,                \* history: the selection just before the last operation
    anchors             \* history: the most recent anchoring calls

vars ==
    <<world, expanded, overflow_checks, elements, visible_elements,
      entities, last_action, panicked, call, pre, anchors>>

hierVars ==
    <<elements, visible_elements>>

selVars ==
    <<entities, last_action>>

envVars ==
    <<world, expanded, overflow_checks>>

(***************************************************************************)
(* Bounds of the model.                                                    *)
(***************************************************************************)
NumSelEntities ==
    2

MaxRange ==
    2

None ==
    <<>>

Some(x) ==
    <<x>>

ToSet(s) ==
    { s[i] : i \in 1..Len(s) }

NoDup(s) ==
    \A i, j \in 1..Len(s) : s[i] = s[j] => i = j

RECURSIVE SeqsUpTo(_, _)
SeqsUpTo(S, n) ==
    IF n = 0 THEN { <<>> }
    ELSE LET shorter == SeqsUpTo(S, n - 1)
         IN  shorter \cup { Append(s, x) : s \in shorter, x \in S }

(***************************************************************************)
(* SelectionMode and from_ctrl_shift.                                      *)
(***************************************************************************)
SelectionMode ==
    { "Replace", "Add", "Extend" }

\* Mutant of from_ctrl_shift: shift is looked at before ctrl.
from_ctrl_shift_shift_first(ctrl, shift) ==
    IF shift THEN "Extend"
    ELSE IF ctrl THEN "Add"
    ELSE "Replace"

from_ctrl_shift(ctrl, shift) ==
    IF ctrl THEN "Add"
    ELSE IF shift THEN "Extend"
    ELSE "Replace"

(***************************************************************************)
(* SelectedEntities.  `self` is the record [entities, last_action]; each   *)
(* &mut self method is an operator from self to the new self.              *)
(***************************************************************************)
SelectedEntitiesDefault ==
    [ entities |-> <<>>, last_action |-> None ]

len(self) ==
    Len(self.entities)

contains(self, entity) ==
    \E i \in 1..Len(self.entities) : self.entities[i] = entity

\* iter().position(|&e| e == entity): the first index holding entity, or None.
position(seq, entity) ==
    IF \E i \in 1..Len(seq) : seq[i] = entity
    THEN Some(CHOOSE i \in 1..Len(seq) :
                /\ seq[i] = entity
                /\ \A j \in 1..(i - 1) : seq[j] # entity)
    ELSE None

\* Vec::remove(idx): drops the element at idx, shifting the rest left.
VecRemove(seq, idx) ==
    SubSeq(seq, 1, idx - 1) \o SubSeq(seq, idx + 1, Len(seq))

\* Mutant of insert: pushes without the contains check.
insert_unchecked(self, entity) ==
    [ self EXCEPT !.entities = Append(@, entity) ]

insert(self, entity) ==
    IF ~contains(self, entity)
    THEN [ self EXCEPT !.entities = Append(@, entity) ]
    ELSE self

\* Mutant of insert_replace: pushes without clearing first.
insert_replace_noclear(self, entity) ==
    [ self EXCEPT !.entities = Append(@, entity) ]

insert_replace(self, entity) ==
    [ self EXCEPT !.entities = <<entity>> ]

\* remove returns Option<Entity> besides mutating self.
remove(self, entity) ==
    LET idx == position(self.entities, entity)
    IN  IF idx # None
        THEN [ self |-> [ self EXCEPT !.entities = VecRemove(@, idx[1]) ],
               ret  |-> Some(self.entities[idx[1]]) ]
        ELSE [ self |-> self, ret |-> None ]

\* Mutant of toggle: inserts when absent but never removes.
toggle_never_removes(self, entity) ==
    IF \E i \in 1..Len(self.entities) : self.entities[i] = entity
    THEN self
    ELSE [ self EXCEPT !.entities = Append(@, entity) ]

toggle(self, entity) ==
    LET r == remove(self, entity)
    IN  IF r.ret = None
        THEN [ r.self EXCEPT !.entities = Append(@, entity) ]
        ELSE r.self

\* Mutant of clear: the last action is forgotten along with the selection.
clear_forgets_last_action(self) ==
    [ self EXCEPT !.entities = <<>>, !.last_action = <<>> ]

clear(self) ==
    [ self EXCEPT !.entities = <<>> ]

\* retain(f): f is given as the set of entities it accepts.
retain(self, f) ==
    [ self EXCEPT !.entities = SelectSeq(@, LAMBDA e : e \in f) ]

\* The body of `for entity in extend_with(..) { self.insert(entity) }`.
RECURSIVE insert_each(_, _)
insert_each(self, items) ==
    IF items = <<>> THEN self
    ELSE insert_each(insert(self, Head(items)), Tail(items))

\* Mutant of select_extend: the range arm falls through to the last_action
\* update instead of returning.
select_extend_updates(self, entity, extend_with) ==
    IF self.last_action = None
    THEN [ self |-> insert(self, entity), returned |-> FALSE ]
    ELSE LET last_mode   == self.last_action[1].mode
             last_entity == self.last_action[1].entity
             start       == IF last_mode \in { "Add", "Replace" }
                            THEN clear(self)
                            ELSE self
         IN  [ self     |-> insert_each(start, extend_with[<<entity, last_entity>>]),
               returned |-> FALSE ]

\* Mutant of select_extend: the selection is never cleared before the range
\* is inserted.
select_extend_noclear(self, entity, extend_with) ==
    IF self.last_action = None
    THEN [ self |-> insert(self, entity), returned |-> FALSE ]
    ELSE LET last_entity == self.last_action[1].entity
         IN  [ self     |-> insert_each(self, extend_with[<<entity, last_entity>>]),
               returned |-> TRUE ]

\* The (_, SelectionMode::Extend) arm of select.  `returned` tells whether the
\* arm left select through its early `return`.  extend_with is the resolver
\* closure, a function on pairs <<from, to>>.
select_extend(self, entity, extend_with) ==
    IF self.last_action = None
    THEN [ self |-> insert(self, entity), returned |-> FALSE ]
    ELSE LET last_mode   == self.last_action[1].mode
             last_entity == self.last_action[1].entity
             start       == IF last_mode \in { "Add", "Replace" }
                            THEN clear(self)
                            ELSE self
         IN  [ self     |-> insert_each(start, extend_with[<<entity, last_entity>>]),
               returned |-> TRUE ]

\* Mutant of select_arm: no (0, _) arm, an empty selection is matched by mode.
select_arm_no_bootstrap(self, mode, entity, extend_with) ==
    IF mode = "Replace"
    THEN [ self |-> insert_replace(self, entity), returned |-> FALSE ]
    ELSE IF mode = "Add"
    THEN [ self |-> toggle(self, entity), returned |-> FALSE ]
    ELSE select_extend(self, entity, extend_with)

\* The match of select: which arm runs, and the selection it leaves.
select_arm(self, mode, entity, extend_with) ==
    IF len(self) = 0
    THEN [ self |-> insert(self, entity), returned |-> FALSE ]
    ELSE IF mode = "Replace"
    THEN [ self |-> insert_replace(self, entity), returned |-> FALSE ]
    ELSE IF mode = "Add"
    THEN [ self |-> toggle(self, entity), returned |-> FALSE ]
    ELSE select_extend(self, entity, extend_with)

\* Mutant of select: last_action is recorded only when the selection was empty.
select_anchor_on_empty_only(self, mode, entity, extend_with) ==
    LET arm == select_arm(self, mode, entity, extend_with)
    IN  IF arm.returned \/ len(self) # 0
        THEN arm.self
        ELSE [ arm.self EXCEPT
                 !.last_action = Some([ mode |-> mode, entity |-> entity ]) ]

select(self, mode, entity, extend_with) ==
    LET arm == select_arm(self, mode, entity, extend_with)
    IN  IF arm.returned
        THEN arm.self
        ELSE [ arm.self EXCEPT
                 !.last_action = Some([ mode |-> mode, entity |-> entity ]) ]

select_replace(self, entity) ==
    [ insert_replace(self, entity) EXCEPT
        !.last_action = Some([ mode |-> "Replace", entity |-> entity ]) ]

\* |_, _| std::iter::empty()
EmptyResolver ==
    [ p \in Nat \X Nat |-> <<>> ]

select_maybe_add(self, entity, add) ==
    LET mode == IF add THEN "Add" ELSE "Replace"
    IN  select(self, mode, entity, EmptyResolver)

(***************************************************************************)
(* The selection API driven directly, with arbitrary arguments.  select    *)
(* applies its resolver at most once, so a resolver is given by the        *)
(* sequence it returns there: any sequence of entities, repeats included.  *)
(***************************************************************************)
SelEntity ==
    1..NumSelEntities

Ranges ==
    SeqsUpTo(SelEntity, MaxRange)

AnyResolver(r) ==
    [ p \in Nat \X Nat |-> r ]

Self ==
    [ entities |-> entities, last_action |-> last_action ]

NoAnchors ==
    [ replace_add |-> None, bootstrap |-> None ]

\* The mode and clicked entity of a call that goes through select, or None.
Clicked(c) ==
    IF c.op = "select" THEN Some([ mode |-> c.mode, entity |-> c.entity ])
    ELSE IF c.op = "select_replace" THEN Some([ mode |-> "Replace", entity |-> c.entity ])
    ELSE IF c.op = "select_maybe_add"
    THEN Some([ mode |-> IF c.add THEN "Add" ELSE "Replace", entity |-> c.entity ])
    ELSE None

\* anchors.replace_add: the most recent call whose mode was Replace or Add.
\* anchors.bootstrap: the most recent call whose mode was Replace or Add, or
\* that was made on an empty selection.
NextAnchors(c) ==
    LET k == Clicked(c)
    IN  IF k = None THEN anchors
        ELSE [ replace_add |-> IF k[1].mode \in { "Replace", "Add" }
                               THEN k ELSE anchors.replace_add,
               bootstrap   |-> IF k[1].mode \in { "Replace", "Add" } \/ entities = <<>>
                               THEN k ELSE anchors.bootstrap ]

\* Commit a new SelectedEntities value and the history of the call.
Commit(new, c) ==
    \E after \in { new } :
        /\ entities' = after.entities
        /\ last_action' = after.last_action
        /\ call' = c
        /\ pre' = Self
        /\ anchors' = NextAnchors(c)

\* select reaches the call of extend_with: the mode is Extend, the selection
\* is not empty and a last_action is present.
CallsResolver(self, mode) ==
    mode = "Extend" /\ len(self) # 0 /\ self.last_action # None

\* The call record keeps whether the resolver's sequence repeats an entity
\* and, when select calls the resolver, the set of entities it returned.
Select(mode, entity, r) ==
    /\ ~panicked
    /\ Commit(select(Self, mode, entity, AnyResolver(r)),
              [ op |-> "select", mode |-> mode, entity |-> entity,
                repeats |-> ~NoDup(r),
                range |-> IF CallsResolver(Self, mode) THEN ToSet(r) ELSE {} ])
    /\ UNCHANGED <<envVars, hierVars, panicked>>

SelectReplace(entity) ==
    /\ ~panicked
    /\ Commit(select_replace(Self, entity),
              [ op |-> "select_replace", entity |-> entity ])
    /\ UNCHANGED <<envVars, hierVars, panicked>>

SelectMaybeAdd(entity, add) ==
    /\ ~panicked
    /\ Commit(select_maybe_add(Self, entity, add),
              [ op |-> "select_maybe_add", entity |-> entity, add |-> add ])
    /\ UNCHANGED <<envVars, hierVars, panicked>>

Remove(entity) ==
    /\ ~panicked
    /\ \E r \in { remove(Self, entity) } :
          Commit(r.self, [ op |-> "remove", entity |-> entity, ret |-> r.ret ])
    /\ UNCHANGED <<envVars, hierVars, panicked>>

Retain(f) ==
    /\ ~panicked
    /\ Commit(retain(Self, f), [ op |-> "retain", keep |-> f ])
    /\ UNCHANGED <<envVars, hierVars, panicked>>

Clear ==
    /\ ~panicked
    /\ Commit(clear(Self), [ op |-> "clear" ])
    /\ UNCHANGED <<envVars, hierVars, panicked>>

EmptyWorld ==
    [ childOf |-> <<>>, children |-> <<>>, qf |-> {} ]

InitSel ==
    /\ world = EmptyWorld
    /\ expanded = <<>>
    /\ overflow_checks = FALSE
    /\ elements = <<>>
    /\ visible_elements = <<>>
    /\ entities = SelectedEntitiesDefault.entities
    /\ last_action = SelectedEntitiesDefault.last_action
    /\ panicked = FALSE
    /\ call = [ op |-> "default" ]
    /\ pre = SelectedEntitiesDefault
    /\ anchors = NoAnchors

NextSel ==
    \/ \E mode \in SelectionMode, entity \in SelEntity, r \in Ranges :
          Select(mode, entity, r)
    \/ \E entity \in SelEntity : SelectReplace(entity)
    \/ \E entity \in SelEntity, add \in BOOLEAN : SelectMaybeAdd(entity, add)
    \/ \E entity \in SelEntity : Remove(entity)
    \/ \E f \in SUBSET SelEntity : Retain(f)
    \/ Clear

SpecSel ==
    InitSel /\ [][NextSel]_vars

(***************************************************************************)
(* HierarchyStructure.  `self` is the record [elements, visible_elements]. *)
(* A HierarchyElement is [entity, parent, depth, has_children]; its name   *)
(* comes from guess_entity_name, which no operation here reads back, and   *)
(* is left out.  The World `w` is [childOf, children, qf]: the ChildOf and *)
(* Children components (an Option per entity) and the set of entities the  *)
(* QF query filter accepts.                                                *)
(***************************************************************************)
HierarchyStructureDefault ==
    [ elements |-> <<>>, visible_elements |-> <<>> ]

\* depth is a u8.
U8Modulus ==
    256

\* world.get::<Children>(entity): None for an entity without the component.
get_children(w, entity) ==
    IF entity \in DOMAIN w.children THEN w.children[entity] ELSE None

(***************************************************************************)
(* add_recursive recurses once per level of the graph.  Its execution is   *)
(* modelled with the call stack made explicit: a machine m is the          *)
(* structure being filled, the stack of `for` loops that are still running *)
(* (the innermost last) and whether the thread panicked.  A frame is       *)
(*   [parent, depth, pending]: the loop of add_recursive(depth, entity, ..) *)
(*   passes parent = Some(entity) and depth + 1 to each child still        *)
(*   pending; the loop over root_entities in read_from_world passes        *)
(*   parent = None and depth 0 (its own depth is None).                    *)
(***************************************************************************)
Machine(self, stack) ==
    [ self |-> self, stack |-> stack, panicked |-> FALSE ]

\* add_recursive from its entry to the start of its loop: push the element,
\* return if the entity has no Children, otherwise start iterating them.
add_recursive(m, depth, entity, parent, w) ==
    LET children == get_children(w, entity)
        element  == [ entity       |-> entity,
                      parent       |-> parent,
                      depth        |-> depth,
                      has_children |-> children # None ]
        pushed   == [ m EXCEPT !.self.elements = Append(@, element) ]
    IN  IF children = None
        THEN pushed
        ELSE [ pushed EXCEPT
                 !.stack = Append(@, [ parent  |-> Some(entity),
                                       depth   |-> Some(depth),
                                       pending |-> children[1] ]) ]

\* The depth a loop passes to a child: 0 from read_from_world, depth + 1 on a
\* u8 from add_recursive.  With overflow checks 255 + 1 panics (None), without
\* them it wraps to 0.
child_depth(frame, checks) ==
    IF frame.depth = None THEN Some(0)
    ELSE IF frame.depth[1] + 1 >= U8Modulus /\ checks THEN None
    ELSE Some((frame.depth[1] + 1) % U8Modulus)

\* Mutant of loop_step: the children are visited last to first.
loop_step_reversed(m, w, checks) ==
    IF m.panicked \/ m.stack = <<>> THEN m
    ELSE LET top   == Len(m.stack)
             frame == m.stack[top]
         IN  IF frame.pending = <<>>
             THEN [ m EXCEPT !.stack = SubSeq(@, 1, top - 1) ]
             ELSE LET depth == child_depth(frame, checks)
                      n     == Len(frame.pending)
                      rest  == [ m EXCEPT
                                   !.stack[top].pending = SubSeq(@, 1, n - 1) ]
                  IN  IF depth = None
                      THEN [ m EXCEPT !.panicked = TRUE ]
                      ELSE add_recursive(rest, depth[1], frame.pending[n],
                                         frame.parent, w)

\* One turn of the innermost running loop: return when no child is pending,
\* otherwise call add_recursive on the next one.
loop_step(m, w, checks) ==
    IF m.panicked \/ m.stack = <<>> THEN m
    ELSE LET top   == Len(m.stack)
             frame == m.stack[top]
         IN  IF frame.pending = <<>>
             THEN [ m EXCEPT !.stack = SubSeq(@, 1, top - 1) ]
             ELSE LET depth == child_depth(frame, checks)
                      rest  == [ m EXCEPT !.stack[top].pending = Tail(@) ]
                  IN  IF depth = None
                      THEN [ m EXCEPT !.panicked = TRUE ]
                      ELSE add_recursive(rest, depth[1], Head(frame.pending),
                                         frame.parent, w)

\* Up to k turns, one after the other, until no loop is left running.
RECURSIVE run(_, _, _, _)
run(m, w, checks, k) ==
    IF k = 0 \/ m.panicked \/ m.stack = <<>> THEN m
    ELSE IF k = 1 THEN loop_step(m, w, checks)
    ELSE LET half == run(m, w, checks, k \div 2)
         IN  IF half.panicked \/ half.stack = <<>> THEN half
             ELSE run(half, w, checks, k - (k \div 2))

\* On a forest every entity is entered once and every loop returns once, so
\* the traversal is over within this many turns.
Turns(w) ==
    2 * Cardinality(DOMAIN w.childOf) + 1

\* Mutant of RootSet: the QF filter is not applied.
RootSet_unfiltered(w) ==
    { e \in DOMAIN w.childOf : w.childOf[e] = None }

\* The entities query_filtered::<Entity, (Without<ChildOf>, QF)> matches.
RootSet(w) ==
    { e \in DOMAIN w.childOf : w.childOf[e] = None /\ e \in w.qf }

\* root_entities.sort()
sort(seq) ==
    SortSeq(seq, LAMBDA a, b : a < b)

\* Mutant of read_from_world: the roots are walked in the order the query
\* yielded them.
read_from_world_unsorted(self, w, query, checks) ==
    LET cleared == [ self EXCEPT !.elements = <<>> ]
        loop    == [ parent |-> None, depth |-> None, pending |-> query ]
    IN  run(Machine(cleared, <<loop>>), w, checks, Turns(w))

\* query is the Vec the root query collected, in the order it yielded.  The
\* result is the machine the call ends in: its structure, and whether the
\* thread panicked on the way.
read_from_world(self, w, query, checks) ==
    LET cleared       == [ self EXCEPT !.elements = <<>> ]
        root_entities == sort(query)
        loop          == [ parent |-> None, depth |-> None, pending |-> root_entities ]
    IN  run(Machine(cleared, <<loop>>), w, checks, Turns(w))

\* HierarchyElement::visible_children: the temp bool stored under the
\* entity's Id, false when absent.
visible_children(el, ui) ==
    IF el.entity \in DOMAIN ui THEN ui[el.entity] ELSE FALSE

\* Mutant of is_visible: only the parent's own flag is looked at.
is_visible_parent_only(self, el, ui) ==
    IF el.parent = None THEN TRUE
    ELSE LET parent == el.parent[1]
             found  == { i \in 1..Len(self.elements) : self.elements[i].entity = parent }
         IN  IF found = {} THEN FALSE
             ELSE LET i == CHOOSE k \in found : \A j \in found : k <= j
                  IN  visible_children(self.elements[i], ui)

RECURSIVE is_visible(_, _, _)
is_visible(self, el, ui) ==
    IF el.parent = None THEN TRUE
    ELSE LET parent == el.parent[1]
             found  == { i \in 1..Len(self.elements) : self.elements[i].entity = parent }
         IN  IF found = {} THEN FALSE
             ELSE LET i == CHOOSE k \in found : \A j \in found : k <= j
                  IN  /\ visible_children(self.elements[i], ui)
                      /\ is_visible(self, self.elements[i], ui)

\* Mutant of read_expanded: visible_elements is not cleared first.
read_expanded_append(self, ui) ==
    LET shown == SelectSeq(self.elements, LAMBDA el : is_visible(self, el, ui))
    IN  [ self EXCEPT
            !.visible_elements = @ \o [ i \in 1..Len(shown) |-> shown[i].entity ] ]

\* visible_elements.clear(), then one push per visible element, in elements
\* order.
read_expanded(self, ui) ==
    LET shown == SelectSeq(self.elements, LAMBDA el : is_visible(self, el, ui))
    IN  [ self EXCEPT
            !.visible_elements = [ i \in 1..Len(shown) |-> shown[i].entity ] ]


(***************************************************************************)
(* The worlds read_from_world is run on: every forest over the entities    *)
(* 1..n, that is every acyclic ChildOf assignment; Children is the         *)
(* relationship target of ChildOf, so an entity's child list holds exactly *)
(* the entities whose ChildOf names it, in any stored order, and an entity *)
(* without children has either no Children component or an empty one; any  *)
(* set of entities passes the QF filter.                                   *)
(***************************************************************************)
NumEntities ==
    3

Perms(S) ==
    { q \in [ 1..Cardinality(S) -> S ] : \A i, j \in DOMAIN q : q[i] = q[j] => i = j }

\* f maps an entity to its parent, 0 for none.
RECURSIVE ReachesRoot(_, _, _)
ReachesRoot(f, e, fuel) ==
    IF f[e] = 0 THEN TRUE
    ELSE IF fuel = 0 THEN FALSE
    ELSE ReachesRoot(f, f[e], fuel - 1)

ParentMaps(E) ==
    { f \in [ E -> E \cup { 0 } ] : \A e \in E : ReachesRoot(f, e, Cardinality(E)) }

ChildListChoices(f, e) ==
    LET kids == { c \in DOMAIN f : f[c] = e }
    IN  IF kids = {} THEN { None, Some(<<>>) }
        ELSE { Some(q) : q \in Perms(kids) }

ChildLists(f) ==
    LET E == DOMAIN f
        U == UNION { ChildListChoices(f, e) : e \in E }
    IN  { ch \in [ E -> U ] : \A e \in E : ch[e] \in ChildListChoices(f, e) }

WorldsOver(f) ==
    { [ childOf  |-> [ e \in DOMAIN f |-> IF f[e] = 0 THEN None ELSE Some(f[e]) ],
        children |-> ch,
        qf       |-> q ] :
      ch \in ChildLists(f), q \in SUBSET DOMAIN f }

Worlds(E) ==
    UNION { WorldsOver(f) : f \in ParentMaps(E) }

HS ==
    [ elements |-> elements, visible_elements |-> visible_elements ]

\* Mutant of ReadFromWorld: the refresh also prunes the selection down to
\* the entities of the new snapshot.
ReadFromWorld_prunes ==
    /\ ~panicked
    /\ \E query \in Perms(RootSet(world)) :
          \E m \in { read_from_world(HS, world, query, overflow_checks) } :
              /\ elements' = m.self.elements
              /\ visible_elements' = m.self.visible_elements
              /\ panicked' = m.panicked
              /\ entities' = SelectSeq(entities,
                     LAMBDA e : \E i \in 1..Len(m.self.elements) :
                                   m.self.elements[i].entity = e)
              /\ call' = [ op        |-> "read_from_world",
                           ascending |-> query = sort(query),
                           again     |-> call.op = "read_from_world" ]
    /\ pre' = Self
    /\ UNCHANGED <<envVars, last_action, anchors>>

\* HierarchyStructure::read_from_world; the root query may yield the roots in
\* any order.  A panic unwinds out of the call with elements as pushed so far.
\* The call record notes whether the query yielded the roots in ascending
\* order and whether the call before this one was a read_from_world too.
ReadFromWorld ==
    /\ ~panicked
    /\ \E query \in Perms(RootSet(world)) :
          \E m \in { read_from_world(HS, world, query, overflow_checks) } :
              /\ elements' = m.self.elements
              /\ visible_elements' = m.self.visible_elements
              /\ panicked' = m.panicked
              /\ call' = [ op        |-> "read_from_world",
                           ascending |-> query = sort(query),
                           again     |-> call.op = "read_from_world" ]
    /\ pre' = Self
    /\ UNCHANGED <<envVars, selVars, anchors>>

\* HierarchyStructure::read_expanded.  The call record notes whether
\* visible_elements held, before the call, an entity that is not visible now.
ReadExpanded ==
    /\ ~panicked
    /\ \E new \in { read_expanded(HS, expanded) } :
          /\ elements' = new.elements
          /\ visible_elements' = new.visible_elements
          /\ call' = [ op    |-> "read_expanded",
                       stale |-> ToSet(visible_elements)
                                    \ ToSet(new.visible_elements) # {} ]
    /\ pre' = Self
    /\ UNCHANGED <<envVars, selVars, anchors, panicked>>

\* ui.data_mut(|d| d.insert_temp(egui::Id::new(entity), value))
SetExpanded(entity, value) ==
    /\ ~panicked
    /\ expanded' = [ expanded EXCEPT ![entity] = value ]
    /\ call' = [ op |-> "insert_temp", entity |-> entity, value |-> value ]
    /\ pre' = Self
    /\ UNCHANGED <<world, overflow_checks, hierVars, selVars, anchors, panicked>>

InitHier ==
    /\ world \in Worlds(1..NumEntities)
    /\ expanded = [ e \in 1..NumEntities |-> FALSE ]
    /\ overflow_checks \in BOOLEAN
    /\ elements = HierarchyStructureDefault.elements
    /\ visible_elements = HierarchyStructureDefault.visible_elements
    /\ entities = SelectedEntitiesDefault.entities
    /\ last_action = SelectedEntitiesDefault.last_action
    /\ panicked = FALSE
    /\ call = [ op |-> "default" ]
    /\ pre = SelectedEntitiesDefault
    /\ anchors = NoAnchors

NextHier ==
    \/ ReadFromWorld
    \/ ReadExpanded
    \/ \E entity \in DOMAIN expanded, value \in BOOLEAN : SetExpanded(entity, value)

SpecHier ==
    InitHier /\ [][NextHier]_vars

(***************************************************************************)
(* Deep worlds: a single parent chain 1 <- 2 <- ... <- n, each entity the  *)
(* only child of the one before, in either build profile.                  *)
(***************************************************************************)
MaxChain ==
    258

Chain(n) ==
    [ childOf  |-> [ e \in 1..n |-> IF e = 1 THEN None ELSE Some(e - 1) ],
      children |-> [ e \in 1..n |-> IF e = n THEN None ELSE Some(<<e + 1>>) ],
      qf       |-> 1..n ]

InitDeep ==
    /\ world \in { Chain(n) : n \in 1..MaxChain }
    /\ expanded = <<>>
    /\ overflow_checks \in BOOLEAN
    /\ elements = HierarchyStructureDefault.elements
    /\ visible_elements = HierarchyStructureDefault.visible_elements
    /\ entities = SelectedEntitiesDefault.entities
    /\ last_action = SelectedEntitiesDefault.last_action
    /\ panicked = FALSE
    /\ call = [ op |-> "default" ]
    /\ pre = SelectedEntitiesDefault
    /\ anchors = NoAnchors

NextDeep ==
    ReadFromWorld

SpecDeep ==
    InitDeep /\ [][NextDeep]_vars


(***************************************************************************)
(* Hierarchy::_show, one call per frame: a fresh HierarchyStructure is     *)
(* filled by read_from_world and read_expanded, the rows of                *)
(* visible_elements are laid out, and the frame's pointer click, if any,   *)
(* lands on one row's expand button or on the row itself.                  *)
(***************************************************************************)
\* The extend_with closure over the frame's visible_elements.
\* Mutant of extend_with: the slice is taken from the first argument's
\* position to the second's, without ordering the two.
extend_with_unordered(visible) ==
    [ p \in Nat \X Nat |->
        LET from_position == position(visible, p[1])
            to_position   == position(visible, p[2])
        IN  IF from_position # None /\ to_position # None
            THEN SubSeq(visible, from_position[1], to_position[1])
            ELSE <<>> ]

extend_with(visible) ==
    [ p \in Nat \X Nat |->
        LET from_position == position(visible, p[1])
            to_position   == position(visible, p[2])
        IN  IF from_position # None /\ to_position # None
            THEN LET from == from_position[1]
                     to   == to_position[1]
                     min  == IF from < to THEN from ELSE to
                     max  == IF from < to THEN to ELSE from
                 IN  SubSeq(visible, min, max)
            ELSE <<>> ]

\* The frame's rebuild: what read_from_world and read_expanded leave in the
\* local `hierarchy`, for one order of the root query.
Rebuild(query) ==
    LET m == read_from_world(HierarchyStructureDefault, world, query, overflow_checks)
    IN  IF m.panicked THEN m
        ELSE [ m EXCEPT !.self = read_expanded(m.self, expanded) ]

\* The element of the row at index `row` (from 0), or None when the row's
\* closure returns early.
row_element(hierarchy, row) ==
    IF row + 1 \notin 1..Len(hierarchy.visible_elements) THEN None
    ELSE LET ent   == hierarchy.visible_elements[row + 1]
             found == { i \in 1..Len(hierarchy.elements) :
                          hierarchy.elements[i].entity = ent }
         IN  IF found = {} THEN None
             ELSE Some(hierarchy.elements[CHOOSE i \in found : \A j \in found : i <= j])

\* A frame without a click, or whose rebuild panicked.
NoClick(m) ==
    /\ call' = [ op |-> "_show" ]
    /\ pre' = Self
    /\ UNCHANGED <<envVars, selVars, anchors>>

\* The frame's click lands on the "^" / ">" button of the row: the entity's
\* flag is flipped for the frames to come.
ButtonClick(m, row) ==
    LET el == row_element(m.self, row)
    IN  /\ ~m.panicked
        /\ el # None
        /\ el[1].has_children
        /\ LET visible == visible_children(el[1], expanded)
           IN  /\ expanded' = [ expanded EXCEPT ![el[1].entity] = ~visible ]
               /\ call' = [ op |-> "insert_temp", entity |-> el[1].entity,
                            value |-> ~visible ]
        /\ pre' = Self
        /\ UNCHANGED <<world, overflow_checks, selVars, anchors>>

\* The frame's click lands on the row, with the modifier keys as held; the
\* call record keeps the two arguments from_ctrl_shift was given.
RowClick(m, row, ctrl, mac_cmd, shift) ==
    LET el             == row_element(m.self, row)
        selection_mode == from_ctrl_shift(ctrl \/ mac_cmd, shift)
    IN  /\ ~m.panicked
        /\ el # None
        /\ Commit(select(Self, selection_mode, el[1].entity,
                         extend_with(m.self.visible_elements)),
                  [ op |-> "select", mode |-> selection_mode,
                    entity |-> el[1].entity, repeats |-> FALSE,
                    ctrl |-> ctrl \/ mac_cmd, shift |-> shift ])
        /\ UNCHANGED envVars

\* body.rows(text_height, hierarchy.visible_elements.len(), ..): the row
\* indices the table lays out.
Rows(m) ==
    0..(Len(m.self.visible_elements) - 1)

Show ==
    /\ ~panicked
    /\ \E query \in Perms(RootSet(world)) :
          \E m \in { Rebuild(query) } :
              /\ elements' = m.self.elements
              /\ visible_elements' = m.self.visible_elements
              /\ panicked' = m.panicked
              /\ \/ NoClick(m)
                 \/ \E row \in Rows(m) : ButtonClick(m, row)
                 \/ \E row \in Rows(m), ctrl, mac_cmd, shift \in BOOLEAN :
                       RowClick(m, row, ctrl, mac_cmd, shift)

\* The worlds the driver is run on: the forests over 1..NumEntities in which
\* every entity passes the filter and no entity holds an empty Children.
ShowWorlds ==
    { w \in Worlds(1..NumEntities) :
        /\ w.qf = 1..NumEntities
        /\ \A e \in 1..NumEntities : w.children[e] # Some(<<>>) }

InitShow ==
    /\ world \in ShowWorlds
    /\ expanded = [ e \in 1..NumEntities |-> FALSE ]
    /\ overflow_checks = FALSE
    /\ elements = HierarchyStructureDefault.elements
    /\ visible_elements = HierarchyStructureDefault.visible_elements
    /\ entities = SelectedEntitiesDefault.entities
    /\ last_action = SelectedEntitiesDefault.last_action
    /\ panicked = FALSE
    /\ call = [ op |-> "default" ]
    /\ pre = SelectedEntitiesDefault
    /\ anchors = NoAnchors

NextShow ==
    Show

SpecShow ==
    InitShow /\ [][NextShow]_vars


(***************************************************************************)
(* Properties of SelectedEntities, checked under SpecSel.                  *)
(***************************************************************************)
IsSelect(c, mode) ==
    c.op = "select" /\ c.mode = mode

\* The last select call reached the resolver: the selection was not empty and
\* a last_action was present.
Anchored ==
    pre.entities # <<>> /\ pre.last_action # None

\* C1 (as stated): select(Extend, entity, resolver) leaves last_action exactly
\* as it was, from every reachable state, an empty selection and an absent
\* last_action included.
C1_ExtendNeverUpdatesLastAction ==
    IsSelect(call, "Extend") => last_action = pre.last_action

\* C1 (amended): select(Extend, entity, resolver) leaves last_action exactly as
\* it was when the selection is non-empty and a last_action is present;
\* otherwise it sets last_action to (Extend, entity).
C1_ExtendKeepsAnchorWhenAnchored ==
    IsSelect(call, "Extend") =>
        IF Anchored
        THEN last_action = pre.last_action
        ELSE last_action = Some([ mode |-> "Extend", entity |-> call.entity ])

C1_Witness ==
    /\ IsSelect(call, "Extend")
    /\ Anchored
    /\ pre.last_action[1].entity # call.entity
    /\ last_action = pre.last_action

\* C2 (as stated): a present last_action has mode Replace or Add and names the
\* clicked entity of the most recent select / select_replace call whose mode
\* was Replace or Add.
C2_LastActionIsLastReplaceOrAdd ==
    last_action # None =>
        /\ last_action[1].mode \in { "Replace", "Add" }
        /\ anchors.replace_add # None
        /\ last_action[1].entity = anchors.replace_add[1].entity

\* C2 (amended): last_action is the (mode, entity) of the most recent select /
\* select_replace call that had mode Replace or Add or was made on an empty
\* selection (absent when there was none); when its mode is Replace or Add it
\* is the most recent Replace / Add call.
C2_LastActionIsLastAnchoringCall ==
    /\ last_action = anchors.bootstrap
    /\ (last_action # None /\ last_action[1].mode \in { "Replace", "Add" })
          => last_action = anchors.replace_add

C2_Witness ==
    /\ last_action # None
    /\ last_action[1].mode = "Extend"
    /\ anchors.replace_add # None
    /\ anchors.replace_add[1].entity # last_action[1].entity
    /\ IsSelect(call, "Extend")
    /\ Anchored

\* C3: entities never holds an identifier twice, whatever the sequence of
\* select, select_replace, remove, retain and clear calls and whatever the
\* resolver returns.
C3_NoDuplicates ==
    NoDup(entities)

C3_Witness ==
    /\ IsSelect(call, "Extend")
    /\ call.repeats
    /\ Anchored
    /\ pre.last_action[1].mode = "Extend"
    /\ Len(entities) > Len(pre.entities)

\* C6: select(Replace, e, _) on a non-empty selection leaves exactly <<e>>
\* selected and sets last_action to (Replace, e).
C6_ReplaceSemantics ==
    (IsSelect(call, "Replace") /\ pre.entities # <<>>) =>
        /\ entities = <<call.entity>>
        /\ last_action = Some([ mode |-> "Replace", entity |-> call.entity ])

C6_Witness ==
    /\ IsSelect(call, "Replace")
    /\ Len(pre.entities) >= 2
    /\ pre.last_action # Some([ mode |-> "Replace", entity |-> call.entity ])
    /\ entities = <<call.entity>>

\* C7: one select(Add, e, _) removes e if it was selected and inserts it
\* otherwise, and sets last_action to (Add, e); two such calls in a row leave
\* the set of selected entities as it was before the first.
C7_AddStep ==
    IsSelect(call', "Add") =>
        /\ ToSet(entities') =
              IF call'.entity \in ToSet(entities)
              THEN ToSet(entities) \ { call'.entity }
              ELSE ToSet(entities) \cup { call'.entity }
        /\ last_action' = Some([ mode |-> "Add", entity |-> call'.entity ])
        /\ (IsSelect(call, "Add") /\ call.entity = call'.entity)
              => ToSet(entities') = ToSet(pre.entities)

C7_AddTwiceIsNoOp ==
    [][C7_AddStep]_vars

\* The second of two select(Add, e, _) calls has acted on a selection that
\* held another entity: e was toggled off and is back on.
C7_Witness ==
    /\ IsSelect(call, "Add")
    /\ pre.last_action = Some([ mode |-> "Add", entity |-> call.entity ])
    /\ pre.entities # <<>>
    /\ call.entity \notin ToSet(pre.entities)
    /\ Len(entities) >= 2

\* C8: select(mode, X, resolver) on an empty selection leaves exactly <<X>>
\* selected, for every mode, every resolver and whether or not a last_action
\* is present, and records (mode, X) as last_action.
C8_EmptySelectionBootstrap ==
    (call.op = "select" /\ pre.entities = <<>>) =>
        /\ entities = <<call.entity>>
        /\ last_action = Some([ mode |-> call.mode, entity |-> call.entity ])

C8_Witness ==
    /\ IsSelect(call, "Extend")
    /\ call.repeats
    /\ pre.entities = <<>>
    /\ pre.last_action # None
    /\ pre.last_action[1].entity # call.entity
    /\ entities = <<call.entity>>

(***************************************************************************)
(* Properties of HierarchyStructure, checked under SpecHier (every forest  *)
(* over NumEntities entities) and SpecDeep (parent chains).  The graph     *)
(* side of each property is read off the world, not off the traversal.     *)
(***************************************************************************)
RECURSIVE AncestorsOf(_, _)
AncestorsOf(w, e) ==
    IF w.childOf[e] = None THEN {}
    ELSE { w.childOf[e][1] } \cup AncestorsOf(w, w.childOf[e][1])

IsExpanded(e) ==
    e \in DOMAIN expanded /\ expanded[e]

ElementEntities ==
    [ i \in 1..Len(elements) |-> elements[i].entity ]

\* The entities of the elements whose parent is Some(p), in elements order.
ChildrenInElements(p) ==
    LET kids == SelectSeq(elements, LAMBDA el : el.parent = Some(p))
    IN  [ i \in 1..Len(kids) |-> kids[i].entity ]

\* C5: after read_expanded an element is in visible_elements iff every
\* ancestor on its parent chain is marked expanded: roots are always visible,
\* and every descendant of a collapsed entity is absent whatever its own flag.
C5_VisibilityGating ==
    call.op = "read_expanded" =>
        /\ \A i \in 1..Len(elements) :
              (elements[i].entity \in ToSet(visible_elements))
                 <=> (\A a \in AncestorsOf(world, elements[i].entity) : IsExpanded(a))
        /\ \A i \in 1..Len(elements) :
              elements[i].parent = None => elements[i].entity \in ToSet(visible_elements)
        /\ \A i \in 1..Len(elements), a \in DOMAIN world.childOf :
              (~IsExpanded(a) /\ a \in AncestorsOf(world, elements[i].entity))
                 => elements[i].entity \notin ToSet(visible_elements)
        /\ ToSet(visible_elements) \subseteq ToSet(ElementEntities)

\* An expanded entity under an expanded parent is hidden because its
\* grandparent, a visible root, is collapsed.
C5_Witness ==
    /\ call.op = "read_expanded"
    /\ \E i, j, k \in 1..Len(elements) :
          /\ elements[i].parent = None
          /\ elements[j].parent = Some(elements[i].entity)
          /\ elements[k].parent = Some(elements[j].entity)
          /\ ~IsExpanded(elements[i].entity)
          /\ IsExpanded(elements[j].entity)
          /\ IsExpanded(elements[k].entity)
          /\ elements[i].entity \in ToSet(visible_elements)
          /\ elements[k].entity \notin ToSet(visible_elements)

\* C9: after read_from_world every element with parent Some(p) comes after an
\* element with entity p, the elements with parent None are exactly the root
\* entities, and the children of a node appear in their stored order.
C9_PreOrder ==
    (call.op = "read_from_world" /\ ~panicked) =>
        /\ \A i \in 1..Len(elements) :
              elements[i].parent # None =>
                 \E j \in 1..(i - 1) : elements[j].entity = elements[i].parent[1]
        /\ \A i \in 1..Len(elements) :
              elements[i].parent = None <=> elements[i].entity \in RootSet(world)
        /\ \A i \in 1..Len(elements) :
              LET p == elements[i].entity
              IN  ChildrenInElements(p) =
                     IF get_children(world, p) = None THEN <<>>
                     ELSE get_children(world, p)[1]

\* A root whose two children are stored larger identifier first has been
\* flattened.
C9_Witness ==
    /\ call.op = "read_from_world"
    /\ \E i \in 1..Len(elements) :
          /\ elements[i].parent = None
          /\ get_children(world, elements[i].entity) # None
          /\ Len(get_children(world, elements[i].entity)[1]) = 2
          /\ get_children(world, elements[i].entity)[1][1]
                > get_children(world, elements[i].entity)[1][2]
          /\ Len(elements) >= 3

\* C10: after read_from_world every root element has depth 0 and every other
\* element's depth is its parent element's depth + 1, for parent chains of
\* any length.
C10_DepthIsParentDepthPlusOne ==
    call.op = "read_from_world" =>
        \A i \in 1..Len(elements) :
           IF elements[i].parent = None
           THEN elements[i].depth = 0
           ELSE \E j \in 1..Len(elements) :
                   /\ elements[j].entity = elements[i].parent[1]
                   /\ elements[i].depth = elements[j].depth + 1

\* ---------------------------------------------------------------------------
\* Range extension through the driver (checked under SpecShow)
\* ---------------------------------------------------------------------------

\* The entities listed between `a` and `c`, both included, in the order
\* `visible`, whichever of the two comes first.
Between(visible, a, c) ==
    { visible[i] : i \in { i \in 1..Len(visible) :
        \E j, k \in 1..Len(visible) :
            /\ { visible[j], visible[k] } = { a, c }
            /\ j <= i
            /\ i <= k } }

\* The click extended a range from an anchor (m, A), m Replace or Add, that
\* the frame's visible order contains.
ExtendsFromAnchor ==
    /\ IsSelect(call, "Extend")
    /\ Anchored
    /\ pre.last_action[1].mode \in { "Replace", "Add" }
    /\ pre.last_action[1].entity \in ToSet(visible_elements)

\* C4: from a non-empty selection with last_action = (m, A), m Replace or Add,
\* and a visible order containing A, every select(Extend, c, resolver) on a
\* visible entity c, the resolver being the inclusive visible range, leaves
\* the selection exactly the entities between A and c in the visible order
\* and last_action still (m, A); the state it leaves satisfies the same
\* precondition, so the statement carries along a chain of such calls.
C4_ChainedExtendMeasuredFromAnchor ==
    ExtendsFromAnchor =>
        /\ ToSet(entities) =
              Between(visible_elements, pre.last_action[1].entity, call.entity)
        /\ last_action = pre.last_action
        /\ entities # <<>>

\* A later call of a chain: the anchor is a Replace, which left one entity
\* selected, an earlier Extend has grown the selection to three, and this
\* Extend shrinks it to the two between the anchor and the click.
C4_Witness ==
    /\ ExtendsFromAnchor
    /\ pre.last_action[1].mode = "Replace"
    /\ Len(pre.entities) = 3
    /\ Len(entities) = 2
    /\ last_action = pre.last_action
    /\ ToSet(entities) =
          Between(visible_elements, pre.last_action[1].entity, call.entity)

\* ---------------------------------------------------------------------------
\* Snapshots of the graph (checked under SpecHier)
\* ---------------------------------------------------------------------------

\* The entities of the elements with parent None, in elements order.
RootsInElements ==
    LET roots == SelectSeq(elements, LAMBDA el : el.parent = None)
    IN  [ i \in 1..Len(roots) |-> roots[i].entity ]

Ascending(seq) ==
    \A i, j \in 1..Len(seq) : i < j => seq[i] < seq[j]

\* A read_from_world that directly follows a read_from_world; the graph is
\* the same for both.
C11_Step ==
    (call.op = "read_from_world" /\ call'.op = "read_from_world"
        /\ ~panicked /\ ~panicked') =>
        /\ elements' = elements
        /\ Ascending(RootsInElements')
        /\ NoDup(ElementEntities')

\* C11: two consecutive read_from_world calls on an unchanged graph leave the
\* same elements sequence, whatever elements held before and in whatever
\* order the root query yields the roots; the roots appear in ascending
\* order and elements is replaced, not appended to (no entity twice).
C11_DeterministicSnapshot ==
    [][C11_Step]_vars

\* A second read_from_world in a row, over elements already filled, whose
\* query yielded two or more roots out of order.
C11_Witness ==
    /\ call.op = "read_from_world"
    /\ call.again
    /\ ~call.ascending
    /\ Len(RootsInElements) >= 2
    /\ Len(elements) = 3
    /\ Ascending(RootsInElements)

\* The entities whose ChildOf names e in the world.
ChildrenInWorld(w, e) ==
    { c \in DOMAIN w.childOf : w.childOf[c] = Some(e) }

\* C12: for every element read_from_world produces, has_children is true iff
\* the node has at least one child in the graph; a node whose child list is
\* present but empty has has_children = false.
C12_HasChildrenIffChild ==
    (call.op = "read_from_world" /\ ~panicked) =>
        \A i \in 1..Len(elements) :
           elements[i].has_children
              <=> ChildrenInWorld(world, elements[i].entity) # {}

\* Every ancestor of e in the world is marked expanded.
AllAncestorsExpanded(e) ==
    \A a \in AncestorsOf(world, e) : IsExpanded(a)

\* C13: read_expanded replaces visible_elements with the identifiers of all
\* visible elements in the order of elements: it is the entity column of
\* elements with the hidden entities struck out, and nothing that was in it
\* before the call survives unless it is visible now.
C13_VisibleIsOrderedSubsequence ==
    call.op = "read_expanded" =>
        /\ visible_elements = SelectSeq(ElementEntities, AllAncestorsExpanded)
        /\ visible_elements =
              SelectSeq(ElementEntities, LAMBDA e : e \in ToSet(visible_elements))
        /\ NoDup(visible_elements)

\* A recomputation that dropped an entity the previous one had listed, and
\* kept a first and a last element around a hidden one.
C13_Witness ==
    /\ call.op = "read_expanded"
    /\ call.stale
    /\ Len(elements) = 3
    /\ visible_elements = <<elements[1].entity, elements[3].entity>>

\* ---------------------------------------------------------------------------
\* remove, clear, retain (checked under SpecSel)
\* ---------------------------------------------------------------------------

\* `sub` lists exactly the entities of `seq` that are in `keep`, in the
\* relative order they have in `seq`; neither sequence repeats an entity.
KeepsInOrder(sub, seq, keep) ==
    /\ ToSet(sub) = ToSet(seq) \cap keep
    /\ Len(sub) = Cardinality(ToSet(sub))
    /\ \A i, j \in 1..Len(sub) :
          i < j => \E k, l \in 1..Len(seq) :
                      k < l /\ seq[k] = sub[i] /\ seq[l] = sub[j]

\* C14: remove, clear and retain never alter last_action.  remove(e) deletes
\* e if present and returns it, and returns nothing and changes nothing if
\* absent; clear empties the selection; retain(p) drops exactly the entities
\* failing p and keeps the others in their relative order.
C14_RemoveClearRetainKeepLastAction ==
    /\ call.op \in { "remove", "clear", "retain" } => last_action = pre.last_action
    /\ call.op = "remove" =>
          IF call.entity \in ToSet(pre.entities)
          THEN /\ call.ret = Some(call.entity)
               /\ KeepsInOrder(entities, pre.entities, SelEntity \ { call.entity })
          ELSE /\ call.ret = None
               /\ entities = pre.entities
    /\ call.op = "clear" => entities = <<>>
    /\ call.op = "retain" => KeepsInOrder(entities, pre.entities, call.keep)

\* remove has just deselected the very entity last_action names, another
\* entity staying selected.
C14_Witness ==
    /\ call.op = "remove"
    /\ call.ret = Some(call.entity)
    /\ last_action # None
    /\ last_action[1].entity = call.entity
    /\ call.entity \notin ToSet(entities)
    /\ entities # <<>>

\* ---------------------------------------------------------------------------
\* The driver's range resolver (checked under SpecShow)
\* ---------------------------------------------------------------------------

\* The entities a resolver may be asked about: those of the world and one
\* that no world holds.
Askable ==
    1..(NumEntities + 1)

\* `r` is the run of `visible` from one of a, b to the other, both included.
IsSliceBetween(r, visible, a, b) ==
    \E lo, hi \in 1..Len(visible) :
        /\ lo <= hi
        /\ { visible[lo], visible[hi] } = { a, b }
        /\ r = [ i \in 1..(hi - lo + 1) |-> visible[lo + i - 1] ]

\* C15: the resolver the driver hands to select returns, for two entities
\* both in visible_elements, the contiguous inclusive slice of
\* visible_elements between their positions, in visible order and whatever
\* the order of the arguments (resolver(a, b) = resolver(b, a),
\* resolver(a, a) = [a]); it returns the empty sequence if either endpoint
\* is not in visible_elements.
C15_ResolverIsInclusiveVisibleSlice ==
    \A a, b \in Askable :
       LET resolver == extend_with(visible_elements)
       IN  IF a \in ToSet(visible_elements) /\ b \in ToSet(visible_elements)
           THEN /\ IsSliceBetween(resolver[<<a, b>>], visible_elements, a, b)
                /\ resolver[<<a, b>>] = resolver[<<b, a>>]
                /\ resolver[<<a, a>>] = <<a>>
           ELSE resolver[<<a, b>>] = <<>>

\* A click extended the range from an anchor listed after the clicked entity:
\* the resolver was called with its arguments against the visible order and
\* gave all three visible entities, while an Extend from a hidden anchor is
\* a case that other reachable states hold.
C15_Witness ==
    /\ ExtendsFromAnchor
    /\ Len(visible_elements) = 3
    /\ call.entity = visible_elements[1]
    /\ pre.last_action[1].entity = visible_elements[3]
    /\ extend_with(visible_elements)[<<call.entity, pre.last_action[1].entity>>]
          = visible_elements
    /\ entities = visible_elements

(***************************************************************************)
(* The two-roots scene, run through the driver: roots r1 < r2, r1 with the *)
(* children [c1, c2] in that stored order, under three namings of the four *)
(* entities; the stored flags start all unset, as on a first frame, or all *)
(* set, as earlier frames or other users of the ui data may have left      *)
(* them.                                                                   *)
(***************************************************************************)
SceneEntities ==
    1..4

Scene(r1, r2, c1, c2) ==
    [ childOf  |-> [ e \in SceneEntities |->
                       IF e \in { c1, c2 } THEN Some(r1) ELSE None ],
      children |-> [ e \in SceneEntities |->
                       IF e = r1 THEN Some(<<c1, c2>>) ELSE None ],
      qf       |-> SceneEntities ]

\* Children named after the roots, stored smaller or larger identifier
\* first, and children named before the roots.
Scenes ==
    { Scene(1, 2, 3, 4), Scene(1, 2, 4, 3), Scene(3, 4, 2, 1) }

InitScene ==
    /\ world \in Scenes
    /\ expanded \in { [ e \in SceneEntities |-> flag ] : flag \in BOOLEAN }
    /\ overflow_checks = FALSE
    /\ elements = HierarchyStructureDefault.elements
    /\ visible_elements = HierarchyStructureDefault.visible_elements
    /\ entities = SelectedEntitiesDefault.entities
    /\ last_action = SelectedEntitiesDefault.last_action
    /\ panicked = FALSE
    /\ call = [ op |-> "default" ]
    /\ pre = SelectedEntitiesDefault
    /\ anchors = NoAnchors

NextScene ==
    Show

SpecScene ==
    InitScene /\ [][NextScene]_vars

\* The scene's entities, read off the world.
SceneR1 ==
    CHOOSE e \in SceneEntities : world.children[e] # None

SceneR2 ==
    CHOOSE e \in SceneEntities : world.childOf[e] = None /\ e # SceneR1

SceneC1 ==
    world.children[SceneR1][1][1]

SceneC2 ==
    world.children[SceneR1][1][2]

AllExpanded ==
    \A e \in SceneEntities : expanded[e]

\* The frame just shown left the stored flags as it read them.
FrameReadCurrentFlags ==
    call.op \in { "_show", "select" }

\* C16: with roots R1 < R2, R1 having children [C1, C2] and every node
\* expanded, read_from_world then read_expanded yield visible_elements =
\* [R1, C1, C2, R2]; select(Replace, C1) gives the selection {C1}, and from
\* there select(Extend, R2) with the resolver over that visible order gives
\* {C1, C2, R2}.
C16_TwoRootsScenario ==
    /\ (AllExpanded /\ FrameReadCurrentFlags) =>
          visible_elements = <<SceneR1, SceneC1, SceneC2, SceneR2>>
    /\ (AllExpanded /\ IsSelect(call, "Replace") /\ call.entity = SceneC1) =>
          /\ entities = <<SceneC1>>
          /\ last_action = Some([ mode |-> "Replace", entity |-> SceneC1 ])
    /\ (AllExpanded /\ IsSelect(call, "Extend") /\ call.entity = SceneR2
          /\ pre.entities = <<SceneC1>>
          /\ pre.last_action = Some([ mode |-> "Replace", entity |-> SceneC1 ])) =>
          /\ ToSet(entities) = { SceneC1, SceneC2, SceneR2 }
          /\ Len(entities) = 3

\* The last step of the scenario has been taken: R2 was shift-clicked with
\* only C1 selected by a Replace, all four rows being shown.
C16_Witness ==
    /\ AllExpanded
    /\ IsSelect(call, "Extend")
    /\ call.entity = SceneR2
    /\ pre.entities = <<SceneC1>>
    /\ pre.last_action = Some([ mode |-> "Replace", entity |-> SceneC1 ])
    /\ visible_elements = <<SceneR1, SceneC1, SceneC2, SceneR2>>
    /\ ToSet(entities) = { SceneC1, SceneC2, SceneR2 }

\* ---------------------------------------------------------------------------
\* Mode derivation (checked under SpecShow, whose row clicks derive the mode
\* from the modifier keys)
\* ---------------------------------------------------------------------------

\* C17: from_ctrl_shift(ctrl, shift) returns Add whenever ctrl is held, shift
\* held as well or not, Extend when only shift is held, and Replace when
\* neither is held; a row click selects with the mode so derived.
C17_ModeFromModifiers ==
    /\ \A ctrl, shift \in BOOLEAN :
          /\ ctrl => from_ctrl_shift(ctrl, shift) = "Add"
          /\ (~ctrl /\ shift) => from_ctrl_shift(ctrl, shift) = "Extend"
          /\ (~ctrl /\ ~shift) => from_ctrl_shift(ctrl, shift) = "Replace"
    /\ call.op = "select" =>
          /\ call.ctrl => call.mode = "Add"
          /\ (~call.ctrl /\ call.shift) => call.mode = "Extend"
          /\ (~call.ctrl /\ ~call.shift) => call.mode = "Replace"

\* A row was clicked with ctrl and shift both held, and the entity was added
\* to a selection that held another one.
C17_Witness ==
    /\ call.op = "select"
    /\ call.ctrl
    /\ call.shift
    /\ call.mode = "Add"
    /\ Len(pre.entities) = 1
    /\ Len(entities) = 2

\* ---------------------------------------------------------------------------
\* The Extend arm with any resolver (checked under SpecSel)
\* ---------------------------------------------------------------------------

\* C18: Extend on a non-empty selection with a present last_action (m, A):
\* if m is Replace or Add the selection is cleared first, so afterwards it is
\* exactly the set the resolver returned and every previously selected entity
\* outside it is deselected; if m is Extend the selection is not cleared and
\* the result is the union of the previous selection and that set.
C18_ExtendClearsAfterReplaceOrAdd ==
    (IsSelect(call, "Extend") /\ Anchored) =>
        IF pre.last_action[1].mode \in { "Replace", "Add" }
        THEN /\ ToSet(entities) = call.range
             /\ \A e \in ToSet(pre.entities) \ call.range : ~contains(Self, e)
        ELSE ToSet(entities) = ToSet(pre.entities) \cup call.range

\* An Extend after a Replace has deselected an entity the resolver did not
\* return, and selected one it did.
C18_Witness ==
    /\ IsSelect(call, "Extend")
    /\ Anchored
    /\ pre.last_action[1].mode = "Replace"
    /\ ToSet(pre.entities) \ call.range # {}
    /\ call.range # {}
    /\ ToSet(entities) = call.range

\* ---------------------------------------------------------------------------
\* Extend from a hidden anchor (checked under SpecShow)
\* ---------------------------------------------------------------------------

\* The click extended a range from an anchor (m, A), m Replace or Add, that
\* the frame's visible order does not contain.
ExtendsFromHiddenAnchor ==
    /\ IsSelect(call, "Extend")
    /\ Anchored
    /\ pre.last_action[1].mode \in { "Replace", "Add" }
    /\ pre.last_action[1].entity \notin ToSet(visible_elements)

C19_Step ==
    /\ ExtendsFromHiddenAnchor' =>
          /\ entities' = <<>>
          /\ last_action' = last_action
          /\ call'.entity \in ToSet(visible_elements')
    /\ (ExtendsFromHiddenAnchor /\ call'.op = "select") =>
          /\ entities' = <<call'.entity>>
          /\ last_action' = Some([ mode |-> call'.mode, entity |-> call'.entity ])

\* C19: on a non-empty selection with last_action = (Replace or Add, A) and
\* A absent from the visible order, select(Extend, c, resolver) leaves the
\* selection empty, the visible clicked entity c not selected, and
\* last_action unchanged; the next select, of any mode, takes the
\* empty-selection path: it selects its entity alone and sets last_action.
C19_HiddenAnchorDeselectsAll ==
    [][C19_Step]_vars

\* The anchor's parent was collapsed after the anchor was selected, and a
\* shift-click on a visible row has emptied the selection.
C19_Witness ==
    /\ ExtendsFromHiddenAnchor
    /\ entities = <<>>
    /\ last_action = pre.last_action
    /\ call.entity \in ToSet(visible_elements)
    /\ pre.last_action[1].entity \in ToSet(pre.entities)
    /\ \E a \in AncestorsOf(world, pre.last_action[1].entity) : ~IsExpanded(a)

\* ---------------------------------------------------------------------------
\* last_action over the public API (checked under SpecSel)
\* ---------------------------------------------------------------------------

C20_Step ==
    /\ entities # <<>> => last_action # None
    /\ entities' # <<>> => last_action' # None
    /\ last_action # None => last_action' # None
    /\ (IsSelect(call', "Extend") /\ entities # <<>>) => last_action # None

\* C20: in every state reachable from the default SelectedEntities through
\* select, select_replace, select_maybe_add, remove, retain and clear, a
\* non-empty selection implies last_action is present; the Extend arm never
\* finds last_action = None with a non-empty selection, and last_action,
\* once set, is never reset to None.
C20_NonEmptyImpliesLastAction ==
    [][C20_Step]_vars

\* The Extend arm ran on a non-empty selection whose last_action named an
\* entity that remove had deselected.
C20_Witness ==
    /\ IsSelect(call, "Extend")
    /\ Anchored
    /\ pre.last_action[1].entity \notin ToSet(pre.entities)
    /\ entities # <<>>
    /\ last_action = pre.last_action

\* ---------------------------------------------------------------------------
\* One element per reachable node (checked under SpecHier)
\* ---------------------------------------------------------------------------

\* The nodes under a qualifying root: an entity without a parent that passes
\* the filter, and every entity that has such a root among its ancestors.
ReachableNodes(w) ==
    { e \in DOMAIN w.childOf :
        \E r \in { e } \cup AncestorsOf(w, e) :
            w.childOf[r] = None /\ r \in w.qf }

\* The indices of the elements that descend from the element at index i.
DescendantIndices(i) ==
    { j \in 1..Len(elements) :
        elements[i].entity \in AncestorsOf(world, elements[j].entity) }

\* C21: read_from_world appends exactly one element per node reachable from
\* a qualifying root: no entity appears twice in elements or in
\* visible_elements, no subtree of a filtered-out root appears, and the
\* descendants of an element occupy the contiguous block right after it.
C21_OneElementPerReachableNode ==
    /\ NoDup(ElementEntities)
    /\ NoDup(visible_elements)
    /\ call.op = "read_from_world" =>
          /\ ToSet(ElementEntities) = ReachableNodes(world)
          /\ Len(elements) = Cardinality(ReachableNodes(world))
          /\ \A i \in 1..Len(elements) :
                DescendantIndices(i) =
                   (i + 1)..(i + Cardinality(DescendantIndices(i)))

\* A root and its child were flattened while another root, which the filter
\* rejects, was left out.
C21_Witness ==
    /\ call.op = "read_from_world"
    /\ Len(elements) = 2
    /\ elements[2].parent = Some(elements[1].entity)
    /\ \E r \in DOMAIN world.childOf :
          /\ world.childOf[r] = None
          /\ r \notin world.qf
          /\ r \notin ToSet(ElementEntities)

(***************************************************************************)
(* Refreshing the tree under a live selection: the SelectedEntities API    *)
(* and the two HierarchyStructure reads interleave in any order while the  *)
(* application spawns, despawns and reparents entities in between, so that *)
(* a snapshot may lack entities the selection still names.  select is      *)
(* given the resolver that yields nothing, as select_maybe_add gives it.   *)
(***************************************************************************)

\* The worlds the application may leave: every forest over every subset of
\* the selectable entities, every entity passing the filter and none holding
\* an empty Children.
RefreshWorlds ==
    { w \in UNION { Worlds(E) : E \in SUBSET SelEntity } :
        /\ w.qf = DOMAIN w.childOf
        /\ \A e \in DOMAIN w.children : w.children[e] # Some(<<>>) }

\* The application edits the World between two calls.
ChangeWorld ==
    /\ ~panicked
    /\ world' \in RefreshWorlds \ { world }
    /\ call' = [ op |-> "world_changed" ]
    /\ pre' = Self
    /\ UNCHANGED <<expanded, overflow_checks, hierVars, selVars, anchors, panicked>>

InitRefresh ==
    /\ world \in RefreshWorlds
    /\ expanded \in { [ e \in SelEntity |-> flag ] : flag \in BOOLEAN }
    /\ overflow_checks = FALSE
    /\ elements = HierarchyStructureDefault.elements
    /\ visible_elements = HierarchyStructureDefault.visible_elements
    /\ entities = SelectedEntitiesDefault.entities
    /\ last_action = SelectedEntitiesDefault.last_action
    /\ panicked = FALSE
    /\ call = [ op |-> "default" ]
    /\ pre = SelectedEntitiesDefault
    /\ anchors = NoAnchors

NextRefresh ==
    \/ ReadFromWorld
    \/ ReadExpanded
    \/ ChangeWorld
    \/ \E mode \in SelectionMode, entity \in SelEntity :
          Select(mode, entity, <<>>)
    \/ \E entity \in SelEntity : SelectReplace(entity)
    \/ \E entity \in SelEntity, add \in BOOLEAN : SelectMaybeAdd(entity, add)
    \/ \E entity \in SelEntity : Remove(entity)
    \/ \E f \in SUBSET SelEntity : Retain(f)
    \/ Clear

SpecRefresh ==
    InitRefresh /\ [][NextRefresh]_vars

\* The calls that are made on the SelectedEntities.
SelectionCalls ==
    { "select", "select_replace", "select_maybe_add", "remove", "retain", "clear" }

C22_Step ==
    /\ call'.op \in { "read_from_world", "read_expanded" } =>
          /\ entities' = entities
          /\ last_action' = last_action
    /\ (entities' # entities \/ last_action' # last_action) =>
          call'.op \in SelectionCalls

\* C22: read_from_world and read_expanded change only the HierarchyStructure
\* and never the SelectedEntities, even when selected entities or the anchor
\* are missing from the rebuilt snapshot; only a select, select_replace,
\* select_maybe_add, remove, retain or clear call changes the selection.
C22_SelectionSurvivesRefresh ==
    [][C22_Step]_vars

\* A refresh has rebuilt a non-empty snapshot that lacks both a selected
\* entity and the anchor, and the selection is what it was before the call.
C22_Witness ==
    /\ call.op = "read_from_world"
    /\ elements # <<>>
    /\ entities # <<>>
    /\ last_action # None
    /\ last_action[1].entity \notin ToSet(ElementEntities)
    /\ ToSet(entities) \ ToSet(ElementEntities) # {}
    /\ entities = pre.entities
    /\ last_action = pre.last_action

(***************************************************************************)
(* ScaledDownTextures (inspector_egui_impls/image.rs).  Here the World     *)
(* holds, besides no entity at all, the three resources get_or_load asks   *)
(* the RestrictedWorldView for, each an Option (None: missing, or not      *)
(* reachable through the view):                                            *)
(*   scaled_down_textures: [textures, max_size], textures a sequence of    *)
(*     RescaledTextureInfo [base_image, scaled_image, info: [id, size]];   *)
(*   images: Assets<Image> as [base, added]: what the asset of each base   *)
(*     handle is ("missing", "unconvertible" or "ok") and the resized      *)
(*     images added so far, the handle of the n-th being NumImages + n;    *)
(*   egui_user_textures: the handles registered, the texture id of the     *)
(*     n-th being n.                                                       *)
(* A max_size is one number, the side of the square UVec2; the size of a   *)
(* resized image is modelled by the max_size it was fitted into.           *)
(***************************************************************************)
NumImages ==
    2

\* Calls after which get_or_load is no longer followed: without the resource
\* every call adds an image.
MaxAdded ==
    3

DefaultMaxSize ==
    100

MaxSizes ==
    { 50, DefaultMaxSize }

ImageHandles ==
    1..NumImages

AssetStates ==
    { "missing", "unconvertible", "ok" }

ScaledDownTexturesDefault ==
    [ textures |-> <<>>, max_size |-> DefaultMaxSize ]

\* textures.iter().find(|info| info.base_image.id().eq(&image.id())).cloned()
find_texture(textures, image) ==
    LET found == { i \in 1..Len(textures) : textures[i].base_image = image }
    IN  IF found = {} THEN None
        ELSE Some(textures[CHOOSE i \in found : \A j \in found : i <= j])

\* The block computing new_texture_info, once both resources and a
\* convertible original were obtained: the world with the resized image
\* added and registered, and the info built.
load_texture(w, image, max_size) ==
    LET resized_handle == NumImages + Len(w.images[1].added) + 1
        texture_id     == Len(w.egui_user_textures[1]) + 1
    IN  [ world |-> [ w EXCEPT
                        !.images = Some([ @[1] EXCEPT
                                            !.added = Append(@, max_size) ]),
                        !.egui_user_textures = Some(Append(@[1], resized_handle)) ],
          info  |-> [ base_image   |-> image,
                      scaled_image |-> resized_handle,
                      info         |-> [ id |-> texture_id, size |-> max_size ] ] ]

\* Mutant of get_or_load: the textures already held are not looked up.
get_or_load_no_lookup(w, image) ==
    LET max_size == IF w.scaled_down_textures # None
                    THEN w.scaled_down_textures[1].max_size
                    ELSE DefaultMaxSize
    IN  IF w.egui_user_textures = None \/ w.images = None
        THEN [ world |-> w, ret |-> None ]
        ELSE IF w.images[1].base[image] # "ok"
        THEN [ world |-> w, ret |-> None ]
        ELSE LET new == load_texture(w, image, max_size)
             IN  [ world |-> IF w.scaled_down_textures # None
                             THEN [ new.world EXCEPT
                                      !.scaled_down_textures =
                                         Some([ @[1] EXCEPT
                                                  !.textures = Append(@, new.info) ]) ]
                             ELSE new.world,
                   ret   |-> Some(new.info) ]

\* ScaledDownTextures::get_or_load: the world it leaves and what it returns.
get_or_load(w, image) ==
    LET res == IF w.scaled_down_textures = None THEN None
               ELSE find_texture(w.scaled_down_textures[1].textures, image)
    IN  IF res # None
        THEN [ world |-> w, ret |-> res ]
        ELSE LET max_size == IF w.scaled_down_textures # None
                             THEN w.scaled_down_textures[1].max_size
                             ELSE DefaultMaxSize
             IN  IF w.egui_user_textures = None \/ w.images = None
                 THEN [ world |-> w, ret |-> None ]
                 ELSE IF w.images[1].base[image] = "missing"
                 THEN [ world |-> w, ret |-> None ]
                 ELSE IF w.images[1].base[image] = "unconvertible"
                 THEN [ world |-> w, ret |-> None ]
                 ELSE LET new == load_texture(w, image, max_size)
                      IN  [ world |-> IF w.scaled_down_textures # None
                                      THEN [ new.world EXCEPT
                                               !.scaled_down_textures =
                                                  Some([ @[1] EXCEPT
                                                           !.textures =
                                                              Append(@, new.info) ]) ]
                                      ELSE new.world,
                            ret   |-> Some(new.info) ]

\* ScaledDownTextures::max_size(&mut self, new_size)
max_size(self, new_size) ==
    [ self EXCEPT !.max_size = new_size ]

\* The image worlds a run starts in: each resource present or not, the
\* ScaledDownTextures as default() builds it, no image resized yet, and the
\* base assets in any state.
ImageWorlds ==
    { [ childOf              |-> EmptyWorld.childOf,
        children             |-> EmptyWorld.children,
        qf                   |-> EmptyWorld.qf,
        scaled_down_textures |-> sdt,
        images               |-> img,
        egui_user_textures   |-> eut ] :
      sdt \in { None, Some(ScaledDownTexturesDefault) },
      img \in { None } \cup { Some([ base |-> b, added |-> <<>> ]) :
                              b \in [ ImageHandles -> AssetStates ] },
      eut \in { None, Some(<<>>) } }

\* The images added so far, zero without the Assets<Image> resource.
AddedCount(w) ==
    IF w.images = None THEN 0 ELSE Len(w.images[1].added)

\* update_and_show_image calls get_or_load for a handle.
GetOrLoad(image) ==
    /\ ~panicked
    /\ AddedCount(world) < MaxAdded
    /\ \E r \in { get_or_load(world, image) } :
          /\ world' = r.world
          /\ call' = [ op |-> "get_or_load", image |-> image, ret |-> r.ret ]
    /\ pre' = Self
    /\ UNCHANGED <<expanded, overflow_checks, hierVars, selVars, anchors, panicked>>

\* The application calls ScaledDownTextures::max_size on the resource.
SetMaxSize(new_size) ==
    /\ ~panicked
    /\ world.scaled_down_textures # None
    /\ world' = [ world EXCEPT
                    !.scaled_down_textures = Some(max_size(@[1], new_size)) ]
    /\ call' = [ op |-> "max_size", new_size |-> new_size ]
    /\ pre' = Self
    /\ UNCHANGED <<expanded, overflow_checks, hierVars, selVars, anchors, panicked>>

\* The asset behind a base handle is loaded, replaced or removed.
AssetChanged(image, state) ==
    /\ ~panicked
    /\ world.images # None
    /\ world.images[1].base[image] # state
    /\ world' = [ world EXCEPT
                    !.images = Some([ @[1] EXCEPT !.base[image] = state ]) ]
    /\ call' = [ op |-> "asset_changed", image |-> image, state |-> state ]
    /\ pre' = Self
    /\ UNCHANGED <<expanded, overflow_checks, hierVars, selVars, anchors, panicked>>

InitImage ==
    /\ world \in ImageWorlds
    /\ expanded = <<>>
    /\ overflow_checks = FALSE
    /\ elements = HierarchyStructureDefault.elements
    /\ visible_elements = HierarchyStructureDefault.visible_elements
    /\ entities = SelectedEntitiesDefault.entities
    /\ last_action = SelectedEntitiesDefault.last_action
    /\ panicked = FALSE
    /\ call = [ op |-> "default" ]
    /\ pre = SelectedEntitiesDefault
    /\ anchors = NoAnchors

NextImage ==
    \/ \E image \in ImageHandles : GetOrLoad(image)
    \/ \E new_size \in MaxSizes : SetMaxSize(new_size)
    \/ \E image \in ImageHandles, state \in AssetStates : AssetChanged(image, state)

SpecImage ==
    InitImage /\ [][NextImage]_vars

\* ---------------------------------------------------------------------------
\* The scaled-image cache (checked under SpecImage)
\* ---------------------------------------------------------------------------

\* The base_image column of the textures list.
BaseImages(w) ==
    [ i \in 1..Len(w.scaled_down_textures[1].textures) |->
        w.scaled_down_textures[1].textures[i].base_image ]

\* The registrations made so far, zero without the EguiUserTextures resource.
RegisteredCount(w) ==
    IF w.egui_user_textures = None THEN 0 ELSE Len(w.egui_user_textures[1])

Cached(w, image) ==
    \E i \in 1..Len(BaseImages(w)) : BaseImages(w)[i] = image

C23_Step ==
    (world.scaled_down_textures # None /\ call'.op = "get_or_load") =>
        /\ NoDup(BaseImages(world))
        /\ NoDup(BaseImages(world'))
        /\ Cached(world, call'.image) =>
              /\ call'.ret # None
              /\ call'.ret[1].base_image = call'.image
              /\ \E i \in 1..Len(BaseImages(world)) :
                    world.scaled_down_textures[1].textures[i] = call'.ret[1]
              /\ world' = world
              /\ AddedCount(world') = AddedCount(world)
              /\ RegisteredCount(world') = RegisteredCount(world)
        /\ call'.ret = None =>
              /\ world'.scaled_down_textures = world.scaled_down_textures
              /\ AddedCount(world') = AddedCount(world)
              /\ RegisteredCount(world') = RegisteredCount(world)
        /\ (~Cached(world, call'.image)
              /\ (world.images = None
                    \/ world.images[1].base[call'.image] # "ok")) =>
              call'.ret = None

\* C23: with the ScaledDownTextures resource present the textures list holds
\* at most one entry per base image; a get_or_load for an image already in it
\* returns the held entry and adds neither a scaled image nor a texture
\* registration, also after max_size was changed; a load that fails, the
\* image being missing or not convertible, adds no entry.
C23_CacheMemoizes ==
    [][C23_Step]_vars

\* get_or_load returned an entry fitted into a max_size that is no longer
\* the current one, both base images being held once each.
C23_Witness ==
    /\ call.op = "get_or_load"
    /\ world.scaled_down_textures # None
    /\ call.ret # None
    /\ call.ret[1].info.size # world.scaled_down_textures[1].max_size
    /\ Len(BaseImages(world)) = 2
    /\ AddedCount(world) = 2
    /\ RegisteredCount(world) = 2

====
